---- MODULE Spec2Model ----
(***************************************************************************)
(* Model of scripts/release/adapters/ada.py: the Ada release adapter.      *)
(*                                                                         *)
(* A metadata file (alire.toml) is a sequence of tokens.  A token stands   *)
(* for a run of characters the regular expressions of the adapter treat    *)
(* alike: "SP" is a blank, "NL" a line break (both are \s), "Q" a double   *)
(* quote, "=" the equals sign, and every other token a run of characters   *)
(* that are neither white space, nor a quote, nor "=".                     *)
(***************************************************************************)
EXTENDS Naturals, Sequences, FiniteSets

\* Longest root metadata file of the enumerated layouts, in lines.
MaxLines == 2
\* Number of layer directories that may hold a metadata file of their own.
MaxSub == 2

\* What stands at a path that holds no file (no text has this form).
Absent == <<"ABSENT">>

(***************************************************************************)
(* Regular expressions, as Python's re module evaluates them.              *)
(***************************************************************************)

\* \s
IsWs(t) == t \in {"SP", "NL"}

\* ^ under re.MULTILINE: the start of the text or the place after a line break.
AtLineStart(s, i) == i = 1 \/ (i > 1 /\ i - 1 <= Len(s) /\ s[i - 1] = "NL")

\* \s* from position i (greedy): the first position that holds no white space.
RECURSIVE SkipWs(_, _)
SkipWs(s, i) == IF i <= Len(s) /\ IsWs(s[i]) THEN SkipWs(s, i + 1) ELSE i

\* [^"]* from position i (greedy): the position of the next quote, 0 if none.
RECURSIVE NextQuote(_, _)
NextQuote(s, i) ==
    IF i > Len(s) THEN 0
    ELSE IF s[i] = "Q" THEN i
    ELSE NextQuote(s, i + 1)

NoMatch == [ok |-> FALSE, vs |-> 0, ve |-> 0, end |-> 0]

\* A match at position i of  ^key\s*=\s*"([^"]+)"   (indent = FALSE)
\* or of                     ^(\s*key\s*=\s*")[^"]+(")   (indent = TRUE).
\* vs..ve-1 is the part [^"]+ matches, end the position after the match.
MatchAt(s, i, key, indent) ==
    IF ~AtLineStart(s, i) THEN NoMatch
    ELSE
    LET a == IF indent THEN SkipWs(s, i) ELSE i
        c == SkipWs(s, a + 1)
        d == SkipWs(s, c + 1)
        e == NextQuote(s, d + 1)
    IN  IF /\ a <= Len(s) /\ s[a] = key
           /\ c <= Len(s) /\ s[c] = "="
           /\ d <= Len(s) /\ s[d] = "Q"
           /\ e > d + 1
        THEN [ok |-> TRUE, vs |-> d + 1, ve |-> e, end |-> e + 1]
        ELSE NoMatch

\* re.search: the leftmost match at or after position i.
RECURSIVE SearchFrom(_, _, _, _)
SearchFrom(s, i, key, indent) ==
    IF i > Len(s) THEN NoMatch
    ELSE LET m == MatchAt(s, i, key, indent)
         IN  IF m.ok THEN m ELSE SearchFrom(s, i + 1, key, indent)

\* re.search(r'^key\s*=\s*"([^"]+)"', content, re.MULTILINE)
Search(s, key) == SearchFrom(s, 1, key, FALSE)

\* match.group(1) of a match of Search
Group1(s, m) == SubSeq(s, m.vs, m.ve - 1)

\* re.sub(r'^(\s*version\s*=\s*")[^"]+(")', rf'\g<1>{version}\g<2>', content,
\*        flags=re.MULTILINE), on the text from position i: every match,
\* left to right and not overlapping, has its [^"]+ part replaced.
RECURSIVE SubFrom(_, _, _)
SubFrom(s, i, version) ==
    LET m == SearchFrom(s, i, "version", TRUE)
    IN  IF ~m.ok THEN SubSeq(s, i, Len(s))
        ELSE SubSeq(s, i, m.vs - 1) \o version \o SubSeq(s, m.ve, m.end - 1)
                 \o SubFrom(s, m.end, version)

SubVersion(s, version) == SubFrom(s, 1, version)


(***************************************************************************)
(* The project tree.  Path 0 is <project_root>/alire.toml; path i > 0 is   *)
(* the alire.toml of layer directory i, which rglob finds below the root.  *)
(***************************************************************************)
RootPath == 0
Paths == 0..MaxSub
SubPaths == 1..MaxSub

SyncScript     == "scripts/release/sync_versions.py"
SyncScriptAlt  == "scripts/sync_versions.py"
GenScript      == "scripts/release/generate_version.py"
GenScriptAlt   == "scripts/generate_version.py"
CleanupScript  == "scripts/cleanup_temp_files.py"
Makefile       == "Makefile"
SyncScripts == {SyncScript, SyncScriptAlt}
ToolPaths == {SyncScript, SyncScriptAlt, GenScript, GenScriptAlt, CleanupScript, Makefile}

\* sys.executable
Python == "python"

Versions == {"0.1.0", "0.2.0"}
ProjectNames == {"demo", "Hybrid_App_Ada"}
RootDirName == "proj"

\* The lines the enumerated metadata files are made of.
VersionLine(indented, v) ==
    (IF indented THEN <<"SP">> ELSE <<>>)
        \o <<"version", "SP", "=", "SP", "Q", v, "Q", "NL">>
NameLine == <<"name", "SP", "=", "SP", "Q", "demo", "Q", "NL">>
WebsiteLine == <<"website", "SP", "=", "SP", "Q", "https://h/r", ".git", "Q", "NL">>
EmptyVersionLine == <<"version", "SP", "=", "SP", "Q", "Q", "NL">>
OpenQuoteLine == <<"version", "SP", "=", "SP", "Q", "0.1.0", "NL">>
SectionLine == <<"[x]", "NL">>

LineSet ==
    {VersionLine(i, v) : i \in BOOLEAN, v \in Versions}
        \cup {NameLine, WebsiteLine, EmptyVersionLine, OpenQuoteLine, SectionLine}

\* Every text of at most n lines of LineSet.
RECURSIVE Texts(_)
Texts(n) ==
    IF n = 0 THEN {<<>>}
    ELSE Texts(n - 1) \cup {t \o l : t \in Texts(n - 1), l \in LineSet}

RootTexts == Texts(MaxLines)

\* The texts of a layer's metadata file.
SubTexts ==
    {VersionLine(FALSE, "0.1.0"),
     NameLine \o VersionLine(TRUE, "0.1.0"),
     NameLine}

DemoToml == NameLine \o VersionLine(FALSE, "0.1.0")

OnlyRoot(text) == [p \in Paths |-> IF p = RootPath THEN text ELSE Absent]

DemoConfig(v) == [version |-> v, project_name |-> "demo", root_name |-> RootDirName]

\* The project layouts explored: any root file alone (RootLayouts); the demo
\* root with any layer files and any sync script (TreeLayouts); the demo root
\* with any scripts and Makefile, for any project name (ToolLayouts).
RootLayouts ==
    {[files |-> OnlyRoot(t), exists |-> {}, config |-> DemoConfig(v)] :
        t \in RootTexts \cup {Absent}, v \in Versions}
TreeLayouts ==
    {[files |-> f, exists |-> e, config |-> DemoConfig("0.2.0")] :
        f \in {g \in [Paths -> SubTexts \cup {DemoToml, Absent}] :
                  /\ g[RootPath] = DemoToml
                  /\ \A p \in SubPaths : g[p] # DemoToml},
        e \in SUBSET SyncScripts}
ToolLayouts ==
    {[files |-> OnlyRoot(DemoToml), exists |-> e,
      config |-> [version |-> "0.2.0", project_name |-> n, root_name |-> RootDirName]] :
        e \in SUBSET ToolPaths, n \in ProjectNames}
ProjectLayouts == TreeLayouts \cup ToolLayouts
AllLayouts == RootLayouts \cup ProjectLayouts

(***************************************************************************)
(* The command runner (BaseReleaseAdapter.run_command): it returns None    *)
(* when the command fails or cannot be launched, and a result otherwise:   *)
(* the captured text, which may be empty, under capture_output, and a      *)
(* success marker without it.                                              *)
(***************************************************************************)
RunCommandResults(capture) ==
    IF capture THEN {"None", "Empty", "Text"} ELSE {"None", "Marker"}

\* Python truth of a result (if result:) and result is not None.
Truthy(r) == r \in {"Text", "Marker"}
NotNone(r) == r # "None"

Call(argv, capture, r) == [argv |-> argv, capture |-> capture, result |-> r]

\* What can go wrong with a file: read_text raises; write_text raises when it
\* opens the file (nothing changed) or while it writes (the file is cut).
Faults == {"none", "read", "open", "write"}
NoFault == [p \in Paths |-> "none"]

VARIABLES
    files,      \* path -> text of the metadata file there, or Absent
    exists,     \* the scripts and the Makefile that exist under the root
    config,     \* the ReleaseConfig of the run
    op,         \* the adapter method called last
    ret,        \* what it returned: "True", "False", "tuple", or "raise"
    msg,        \* the last status line it printed
    info,       \* (name, url) a load_project_info call returned
    cmds,       \* the run_command calls it made, in order, with their results
    written,    \* the paths it called write_text on
    fault,      \* path -> the I/O fault that call met there
    pre,        \* files as they were when the call began
    stage,      \* end-to-end run: the number of steps taken
    hist        \* end-to-end run: what each step did

vars == <<files, exists, config, op, ret, msg, info, cmds, written, fault, pre, stage, hist>>

NoInfo == <<<<>>, <<>>>>

\* The adapter holds no state of its own: a run starts from a project layout.
InitWith(layouts) ==
    /\ \E l \in layouts :
          /\ files = l.files
          /\ exists = l.exists
          /\ config = l.config
    /\ op = "init"
    /\ ret = "none"
    /\ msg = <<>>
    /\ info = NoInfo
    /\ cmds = <<>>
    /\ written = {}
    /\ fault = NoFault
    /\ pre = files
    /\ stage = 0
    /\ hist = <<>>

Init == InitWith(ProjectLayouts)

\* What every call leaves behind besides the files.
Observe(o, r, m, i, c, w, fl) ==
    /\ op' = o
    /\ ret' = r
    /\ msg' = m
    /\ info' = i
    /\ cmds' = c
    /\ written' = w
    /\ fault' = fl
    /\ pre' = files
    /\ UNCHANGED <<exists, config>>

Only(p, f) == [q \in Paths |-> IF q = p THEN f ELSE "none"]


(***************************************************************************)
(* load_project_info                                                       *)
(***************************************************************************)

\* url[:-4] if url.endswith('.git') else url
StripGit(url) ==
    IF Len(url) > 0 /\ url[Len(url)] = ".git" THEN SubSeq(url, 1, Len(url) - 1) ELSE url

\* The tuple load_project_info returns for a root file it has read (content),
\* or for none (Absent).
ProjectInfo(content, root_name) ==
    LET name_match == IF content = Absent THEN NoMatch ELSE Search(content, "name")
        website_match == IF content = Absent THEN NoMatch ELSE Search(content, "website")
        project_name == IF name_match.ok THEN Group1(content, name_match) ELSE <<>>
        project_url ==
            IF website_match.ok THEN StripGit(Group1(content, website_match)) ELSE <<>>
    IN  <<IF project_name = <<>> THEN <<root_name>> ELSE project_name, project_url>>

\* load_project_info(config): read_text is called outside any try block, so an
\* error it raises leaves the method.
LoadProjectInfo ==
    /\ \E f \in {"none", "read"} :
          /\ f = "read" => files[RootPath] # Absent
          /\ IF f = "read"
             THEN Observe("load_project_info", "raise", <<>>, NoInfo, <<>>, {},
                          Only(RootPath, f))
             ELSE Observe("load_project_info", "tuple", <<>>,
                          ProjectInfo(files[RootPath], config.root_name), <<>>, {},
                          NoFault)
    /\ files' = files

(***************************************************************************)
(* update_version                                                          *)
(***************************************************************************)

\* What write_text leaves at a path under fault f.
AfterWrite(old, new, f) ==
    CASE f = "none" -> new
      [] f = "open" -> old
      [] f = "write" -> <<>>

\* update_version without the try block of lines 118-153: an I/O error leaves
\* the method.
UpdateVersionNoCatch(content, v, f) ==
    IF content = Absent
    THEN [ret |-> "False", msg |-> <<"alire.toml not found">>, wrote |-> FALSE,
          file |-> content]
    ELSE IF f = "read"
    THEN [ret |-> "raise", msg |-> <<>>, wrote |-> FALSE, file |-> content]
    ELSE
    LET current_match == Search(content, "version")
        new == SubVersion(content, <<v>>)
    IN  IF current_match.ok /\ Group1(content, current_match) = <<v>>
        THEN [ret |-> "True", msg |-> <<"Root alire.toml already has version = ", v>>,
              wrote |-> FALSE, file |-> content]
        ELSE IF new = content
        THEN [ret |-> "False", msg |-> <<"Error: Version field not found">>,
              wrote |-> FALSE, file |-> content]
        ELSE IF f = "none"
        THEN [ret |-> "True", msg |-> <<"Updated root alire.toml: version = ", v>>,
              wrote |-> TRUE, file |-> new]
        ELSE [ret |-> "raise", msg |-> <<>>, wrote |-> TRUE,
              file |-> AfterWrite(content, new, f)]

\* Lines 114-153: the outcome of update_version on a root file (content, or
\* Absent) with target version v under I/O fault f:  the value returned, the
\* line printed, whether write_text was called, and the file afterwards.
UpdateVersionResult(content, v, f) ==
    IF content = Absent
    THEN [ret |-> "False", msg |-> <<"alire.toml not found">>, wrote |-> FALSE, file |-> content]
    ELSE IF f = "read"
    THEN [ret |-> "False", msg |-> <<"Error updating root alire.toml">>, wrote |-> FALSE,
          file |-> content]
    ELSE
    LET current_match == Search(content, "version")
        new == SubVersion(content, <<v>>)
    IN  IF current_match.ok /\ Group1(content, current_match) = <<v>>
        THEN [ret |-> "True", msg |-> <<"Root alire.toml already has version = ", v>>,
              wrote |-> FALSE, file |-> content]
        ELSE IF new = content
        THEN [ret |-> "False", msg |-> <<"Error: Version field not found">>,
              wrote |-> FALSE, file |-> content]
        ELSE IF f = "none"
        THEN [ret |-> "True", msg |-> <<"Updated root alire.toml: version = ", v>>, wrote |-> TRUE,
              file |-> new]
        ELSE [ret |-> "False", msg |-> <<"Error updating root alire.toml">>, wrote |-> TRUE,
              file |-> AfterWrite(content, new, f)]

\* The faults a call can meet at a file: a read fault needs a file to read, a
\* write fault a write_text call (wrote: the call without fault writes it).
PossibleFaults(content, wrote) ==
    {"none"} \cup (IF content # Absent THEN {"read"} ELSE {})
             \cup (IF wrote THEN {"open", "write"} ELSE {})

UpdateVersion ==
    LET content == files[RootPath]
        clean == UpdateVersionResult(content, config.version, "none")
    IN  \E f \in PossibleFaults(content, clean.wrote) :
            LET r == IF f = "none" THEN clean
                     ELSE UpdateVersionResult(content, config.version, f)
            IN  /\ files' = [files EXCEPT ![RootPath] = r.file]
                /\ Observe("update_version", r.ret, r.msg, NoInfo, <<>>,
                           IF r.wrote THEN {RootPath} ELSE {}, Only(RootPath, f))


(***************************************************************************)
(* sync_versions                                                           *)
(***************************************************************************)

\* config.project_root.rglob('alire.toml'): the paths that hold a file, from p on.
RECURSIVE Rglob(_, _)
Rglob(fs, p) ==
    IF p > MaxSub THEN <<>>
    ELSE (IF fs[p] # Absent THEN <<p>> ELSE <<>>) \o Rglob(fs, p + 1)

\* Lines 186-199, one round of the loop: the file afterwards, whether
\* write_text was called, and whether the round ended in the except clause.
SyncFile(content, v, f) ==
    LET new_content == SubVersion(content, <<v>>)
    IN  IF f = "read" THEN [file |-> content, wrote |-> FALSE, warned |-> TRUE]
        ELSE IF new_content = content
        THEN [file |-> content, wrote |-> FALSE, warned |-> FALSE]
        ELSE [file |-> AfterWrite(content, new_content, f), wrote |-> TRUE,
              warned |-> f # "none"]

\* The loop with the try block around it instead of inside it: the first file
\* that cannot be updated ends the loop.
RECURSIVE SyncLoopAbortOnError(_, _, _, _)
SyncLoopAbortOnError(order, fs, v, fl) ==
    IF order = <<>> THEN [files |-> fs, written |-> {}, warned |-> {}]
    ELSE
    LET toml_file == Head(order)
    IN  IF toml_file = RootPath
        THEN SyncLoopAbortOnError(Tail(order), fs, v, fl)
        ELSE LET r == SyncFile(fs[toml_file], v, fl[toml_file])
                 rest == IF r.warned
                         THEN [files |-> [fs EXCEPT ![toml_file] = r.file],
                               written |-> {}, warned |-> {}]
                         ELSE SyncLoopAbortOnError(Tail(order),
                                  [fs EXCEPT ![toml_file] = r.file], v, fl)
             IN  [files |-> rest.files,
                  written |-> rest.written \cup (IF r.wrote THEN {toml_file} ELSE {}),
                  warned |-> rest.warned \cup (IF r.warned THEN {toml_file} ELSE {})]

\* Lines 182-199: the loop over the paths of order, on the files fs.
RECURSIVE SyncLoop(_, _, _, _)
SyncLoop(order, fs, v, fl) ==
    IF order = <<>> THEN [files |-> fs, written |-> {}, warned |-> {}]
    ELSE
    LET toml_file == Head(order)
    IN  IF toml_file = RootPath
        THEN SyncLoop(Tail(order), fs, v, fl)
        ELSE LET r == SyncFile(fs[toml_file], v, fl[toml_file])
                 rest == SyncLoop(Tail(order), [fs EXCEPT ![toml_file] = r.file], v, fl)
             IN  [files |-> rest.files,
                  written |-> rest.written \cup (IF r.wrote THEN {toml_file} ELSE {}),
                  warned |-> rest.warned \cup (IF r.warned THEN {toml_file} ELSE {})]

\* The faults the loop can meet: one per layer path from p on (as a sequence).
RECURSIVE SyncFaults(_, _, _)
SyncFaults(fs, v, p) ==
    IF p > MaxSub THEN {<<>>}
    ELSE LET here == PossibleFaults(fs[p],
                         fs[p] # Absent /\ SyncFile(fs[p], v, "none").wrote)
         IN  {<<f>> \o g : f \in here, g \in SyncFaults(fs, v, p + 1)}

\* The two locations tried in the other order.
SyncScriptFoundAltFirst(ex) ==
    IF SyncScriptAlt \in ex THEN SyncScriptAlt
    ELSE IF SyncScript \in ex THEN SyncScript
    ELSE ""

\* Lines 168-171: the sync script to run, "" if there is none.
SyncScriptFound(ex) ==
    IF SyncScript \in ex THEN SyncScript
    ELSE IF SyncScriptAlt \in ex THEN SyncScriptAlt
    ELSE ""

SyncingMsg == <<"Syncing versions across all layer alire.toml files...">>

\* Lines 173-179: the sync script exists and is run.
SyncVersionsByScript ==
    /\ SyncScriptFound(exists) # ""
    /\ \E result \in RunCommandResults(TRUE) :
          Observe("sync_versions", IF NotNone(result) THEN "True" ELSE "False",
                  SyncingMsg, NoInfo,
                  <<Call(<<Python, SyncScriptFound(exists), config.version>>, TRUE, result)>>,
                  {}, NoFault)
    /\ files' = files

\* Lines 181-201: no sync script; every alire.toml below the root is rewritten.
SyncVersionsInProcess ==
    /\ SyncScriptFound(exists) = ""
    /\ \E g \in SyncFaults(files, config.version, 1) :
             LET fl == [p \in Paths |-> IF p = RootPath THEN "none" ELSE g[p]]
                 r == SyncLoop(Rglob(files, 0), files, config.version, fl)
             IN  /\ files' = r.files
                 /\ Observe("sync_versions", "True", SyncingMsg, NoInfo, <<>>,
                            r.written, fl)

SyncVersions == SyncVersionsByScript \/ SyncVersionsInProcess

(***************************************************************************)
(* generate_version_file                                                   *)
(***************************************************************************)

\* str.lower() on the project names of the layouts.
Lower(n) ==
    CASE n = "demo" -> "demo"
      [] n = "Hybrid_App_Ada" -> "hybrid_app_ada"

\* Lines 224-228: the Ada casing of a lower-case project name.
PackageName(project_name) ==
    CASE project_name = "hybrid_app_ada" -> "Hybrid_App_Ada"
      [] project_name = "demo" -> "Demo"

\* Lines 230-231: f"shared/src/{project_name}-version.ads"
VersionAdsPath(project_name) ==
    CASE project_name = "hybrid_app_ada" -> "shared/src/hybrid_app_ada-version.ads"
      [] project_name = "demo" -> "shared/src/demo-version.ads"

\* Lines 214-216: the generator script to run, "" if there is none.
GenScriptFound(ex) ==
    IF GenScript \in ex THEN GenScript
    ELSE IF GenScriptAlt \in ex THEN GenScriptAlt
    ELSE ""

\* generate_version_file that reports a missing generator script as a failure.
GenerateVersionFileStrict ==
    /\ files' = files
    /\ IF GenScriptFound(exists) = ""
       THEN Observe("generate_version_file", "False",
                    <<"generate_version.py not found">>, NoInfo, <<>>, {}, NoFault)
       ELSE \E result \in RunCommandResults(TRUE) :
               LET project_name == Lower(config.project_name)
                   file_path == VersionAdsPath(project_name)
               IN  Observe("generate_version_file",
                           IF NotNone(result) THEN "True" ELSE "False",
                           IF Truthy(result) THEN <<"Generated ", file_path>>
                           ELSE <<"Generating ", PackageName(project_name),
                                  ".Version package...">>,
                           NoInfo,
                           <<Call(<<Python, GenScriptFound(exists), "alire.toml", file_path>>,
                                  TRUE, result)>>,
                           {}, NoFault)

GenerateVersionFile ==
    /\ files' = files
    /\ IF GenScriptFound(exists) = ""
       THEN Observe("generate_version_file", "True",
                    <<"generate_version.py not found, skipping version package generation">>,
                    NoInfo, <<>>, {}, NoFault)
       ELSE \E result \in RunCommandResults(TRUE) :
               LET project_name == Lower(config.project_name)
                   file_path == VersionAdsPath(project_name)
               IN  Observe("generate_version_file",
                           IF NotNone(result) THEN "True" ELSE "False",
                           IF Truthy(result) THEN <<"Generated ", file_path>>
                           ELSE <<"Generating ", PackageName(project_name),
                                  ".Version package...">>,
                           NoInfo,
                           <<Call(<<Python, GenScriptFound(exists), "alire.toml", file_path>>,
                                  TRUE, result)>>,
                           {}, NoFault)


(***************************************************************************)
(* run_build, run_tests, run_format, cleanup_temp_files                    *)
(***************************************************************************)

\* run_build that takes a failed 'make build' for the end: no 'alr build' then.
RunBuildNoFallback(has_makefile, clean, build, alr) ==
    LET made == IF has_makefile
                THEN <<Call(<<"make", "clean">>, TRUE, clean),
                       Call(<<"make", "build">>, FALSE, build)>>
                ELSE <<>>
    IN  IF has_makefile
        THEN [ret |-> IF Truthy(build) THEN "True" ELSE "False",
              msg |-> IF Truthy(build) THEN <<"Build successful (via make)">>
                      ELSE <<"Build failed">>,
              cmds |-> made]
        ELSE [ret |-> IF Truthy(alr) THEN "True" ELSE "False",
              msg |-> IF Truthy(alr) THEN <<"Build successful">> ELSE <<"Build failed">>,
              cmds |-> Append(made, Call(<<"alr", "build">>, FALSE, alr))]

\* Lines 257-279: run_build with or without a Makefile, given what
\* 'make clean', 'make build' and 'alr build' return if they are run.
RunBuildResult(has_makefile, clean, build, alr) ==
    LET made == IF has_makefile
                THEN <<Call(<<"make", "clean">>, TRUE, clean),
                       Call(<<"make", "build">>, FALSE, build)>>
                ELSE <<>>
    IN  IF has_makefile /\ Truthy(build)
        THEN [ret |-> "True", msg |-> <<"Build successful (via make)">>, cmds |-> made]
        ELSE [ret |-> IF Truthy(alr) THEN "True" ELSE "False",
              msg |-> IF Truthy(alr) THEN <<"Build successful">> ELSE <<"Build failed">>,
              cmds |-> Append(made, Call(<<"alr", "build">>, FALSE, alr))]

RunBuild ==
    /\ files' = files
    /\ \E clean \in RunCommandResults(TRUE), build, alr \in RunCommandResults(FALSE) :
          LET r == RunBuildResult(Makefile \in exists, clean, build, alr)
          IN  \* a command that is not run returns nothing: one choice stands for all
              /\ Makefile \notin exists => clean = "None" /\ build = "None"
              /\ (Makefile \in exists /\ Truthy(build)) => alr = "None"
              /\ Observe("run_build", r.ret, r.msg, NoInfo, r.cmds, {}, NoFault)

\* 'make <target>' with a failed run reported as a failure of the step.
RunMakeTargetStrict(has_makefile, target, done, none, result) ==
    IF has_makefile
    THEN [ret |-> IF NotNone(result) THEN "True" ELSE "False",
          msg |-> IF NotNone(result) THEN <<done>> ELSE <<none>>,
          cmds |-> <<Call(<<"make", target>>, TRUE, result)>>]
    ELSE [ret |-> "True", msg |-> <<none>>, cmds |-> <<>>]

\* Lines 294-307 and 322-335: 'make <target>' if there is a Makefile; the
\* method returns True whatever comes of it.
RunMakeTarget(has_makefile, target, done, none, result) ==
    IF has_makefile
    THEN [ret |-> "True",
          msg |-> IF NotNone(result) THEN <<done>> ELSE <<none>>,
          cmds |-> <<Call(<<"make", target>>, TRUE, result)>>]
    ELSE [ret |-> "True", msg |-> <<none>>, cmds |-> <<>>]

RunTestsResult(has_makefile, result) ==
    RunMakeTarget(has_makefile, "test", "All tests passed (via make)",
                  "No test target found", result)

RunTests ==
    /\ files' = files
    /\ \E result \in RunCommandResults(TRUE) :
          LET r == RunTestsResult(Makefile \in exists, result)
          IN  /\ Makefile \notin exists => result = "None"
              /\ Observe("run_tests", r.ret, r.msg, NoInfo, r.cmds, {}, NoFault)

RunFormatResult(has_makefile, result) ==
    RunMakeTarget(has_makefile, "format", "Code formatted (via make)",
                  "Format target not available (gnatpp/adafmt)", result)

RunFormat ==
    /\ files' = files
    /\ \E result \in RunCommandResults(TRUE) :
          LET r == RunFormatResult(Makefile \in exists, result)
          IN  /\ Makefile \notin exists => result = "None"
              /\ Observe("run_format", r.ret, r.msg, NoInfo, r.cmds, {}, NoFault)

\* Lines 350-374: cleanup_temp_files, given what the cleanup script and
\* 'make clean' return if they are run.
CleanupResult(has_script, has_makefile, script, clean) ==
    LET scripted == IF has_script
                    THEN <<Call(<<Python, CleanupScript>>, TRUE, script)>>
                    ELSE <<>>
    IN  IF has_script /\ NotNone(script)
        THEN [ret |-> "True", msg |-> <<"Cleaned (via cleanup script)">>, cmds |-> scripted]
        ELSE IF has_makefile
        THEN [ret |-> "True",
              msg |-> IF NotNone(clean) THEN <<"Cleaned (via make)">> ELSE <<"Cleaned">>,
              cmds |-> Append(scripted, Call(<<"make", "clean">>, TRUE, clean))]
        ELSE [ret |-> "True", msg |-> <<"Cleaned">>, cmds |-> scripted]

CleanupTempFiles ==
    /\ files' = files
    /\ \E script, clean \in RunCommandResults(TRUE) :
          LET r == CleanupResult(CleanupScript \in exists, Makefile \in exists, script, clean)
          IN  /\ CleanupScript \notin exists => script = "None"
              /\ (Makefile \notin exists \/ (CleanupScript \in exists /\ NotNone(script)))
                     => clean = "None"
              /\ Observe("cleanup_temp_files", r.ret, r.msg, NoInfo, r.cmds, {}, NoFault)

(***************************************************************************)
(* The adapter is stateless and its caller may call any method at any      *)
(* time: one call is one step.                                             *)
(***************************************************************************)
Next ==
    \/ LoadProjectInfo /\ UNCHANGED <<stage, hist>>
    \/ UpdateVersion /\ UNCHANGED <<stage, hist>>
    \/ SyncVersions /\ UNCHANGED <<stage, hist>>
    \/ GenerateVersionFile /\ UNCHANGED <<stage, hist>>
    \/ RunBuild /\ UNCHANGED <<stage, hist>>
    \/ RunTests /\ UNCHANGED <<stage, hist>>
    \/ RunFormat /\ UNCHANGED <<stage, hist>>
    \/ CleanupTempFiles /\ UNCHANGED <<stage, hist>>

Spec == Init /\ [][Next]_vars

(***************************************************************************)
(* The methods that read and rewrite the root metadata file, on every root *)
(* file of at most MaxLines lines.                                         *)
(***************************************************************************)
InitVersion == InitWith(RootLayouts)

NextVersion ==
    \/ LoadProjectInfo /\ UNCHANGED <<stage, hist>>
    \/ UpdateVersion /\ UNCHANGED <<stage, hist>>

SpecVersion == InitVersion /\ [][NextVersion]_vars

(***************************************************************************)
(* The end-to-end run: update_version, then sync_versions, then            *)
(* generate_version_file, each recorded in hist.                           *)
(***************************************************************************)
Entry ==
    [op |-> op, ret |-> ret, cmds |-> cmds, written |-> written, fault |-> fault,
     before |-> pre, after |-> files]

Record(n) ==
    /\ stage = n
    /\ stage' = n + 1
    /\ hist' = Append(hist, Entry')

NextEndToEnd ==
    \/ stage = 0 /\ UpdateVersion /\ Record(0)
    \/ stage = 1 /\ SyncVersions /\ Record(1)
    \/ stage = 2 /\ GenerateVersionFile /\ Record(2)

InitEndToEnd == InitWith(AllLayouts)

SpecEndToEnd == InitEndToEnd /\ [][NextEndToEnd]_vars


(***************************************************************************)
(* Properties                                                              *)
(***************************************************************************)

\* The version fields of a text: the matches of the pattern the adapter
\* substitutes, ^(\s*version\s*=\s*")[^"]+("), at any line start.
FieldsOf(text) ==
    {i \in 1..Len(text) : MatchAt(text, i, "version", TRUE).ok}
HasVersionField(text) == FieldsOf(text) # {}
FieldValues(text) ==
    {Group1(text, MatchAt(text, i, "version", TRUE)) : i \in FieldsOf(text)}

\* text with the value of the one field at position i replaced by v.
ReplaceField(text, i, v) ==
    LET m == MatchAt(text, i, "version", TRUE)
    IN  SubSeq(text, 1, m.vs - 1) \o v \o SubSeq(text, m.ve, Len(text))

Target == <<config.version>>
Updated == op = "update_version"
Synced == op = "sync_versions"
RootBefore == pre[RootPath]
RootAfter == files[RootPath]
NoScript == SyncScript \notin exists /\ SyncScriptAlt \notin exists
Ran(argv) == \E i \in 1..Len(cmds) : cmds[i].argv = argv
Succeeded(argv) == \E i \in 1..Len(cmds) : cmds[i].argv = argv /\ cmds[i].result # "None"

\* C1: update_version is idempotent: called, with no I/O error, on a root file
\* whose version field already holds the target version (here: all of whose
\* version fields do), it returns True and writes nothing; so a call that
\* follows a successful update_version returns True and changes no file.
C1_Idempotent ==
    [][(op' = "update_version" /\ fault' = NoFault) =>
          /\ (/\ RootAfter # Absent
              /\ HasVersionField(RootAfter)
              /\ FieldValues(RootAfter) = {Target})
                 => (ret' = "True" /\ written' = {} /\ files' = files)
          /\ (Updated /\ ret = "True" /\ fault = NoFault)
                 => (ret' = "True" /\ written' = {} /\ files' = files)]_vars

\* C2: when the version field of the root file differs from the target,
\* update_version returns True and the file written is the input with the target
\* in exactly one version field, everything else as it was (stated for the files
\* none of whose version fields holds the target).
C2_ReplacesExactlyThatField ==
    (/\ Updated
     /\ fault = NoFault
     /\ RootBefore # Absent
     /\ HasVersionField(RootBefore)
     /\ Target \notin FieldValues(RootBefore))
        => (/\ ret = "True"
            /\ \E i \in FieldsOf(RootBefore) : RootAfter = ReplaceField(RootBefore, i, Target))

\* C3: with no line of the root file matching the version-field pattern,
\* update_version returns False and writes nothing; and it reports a version
\* field as not found only when the file holds none.
C3_MismatchOnlyWithoutField ==
    /\ (Updated /\ RootBefore # Absent /\ fault = NoFault /\ ~HasVersionField(RootBefore))
          => (ret = "False" /\ written = {} /\ files = pre)
    /\ (Updated /\ msg = <<"Error: Version field not found">>)
          => ~HasVersionField(RootBefore)

\* C4: update_version never lets an error out: it returns a boolean; with no
\* root file it returns False and creates none; when reading or writing the
\* file raises, it returns False.
C4_UpdateNeverRaises ==
    Updated =>
        /\ ret \in {"True", "False"}
        /\ RootBefore = Absent => (ret = "False" /\ RootAfter = Absent /\ written = {})
        /\ fault[RootPath] # "none" => ret = "False"

C4_Witness ==
    /\ Updated
    /\ fault[RootPath] = "write"
    /\ RootPath \in written
    /\ ret = "False"

\* C5: load_project_info never raises: with the root file absent, unreadable or
\* without a name field it returns the root directory's name, and an empty url
\* when the file gives no website.
C5_LoadNeverRaises ==
    op = "load_project_info" =>
        /\ ret = "tuple"
        /\ (RootBefore = Absent \/ fault[RootPath] # "none"
               \/ ~Search(RootBefore, "name").ok) => info[1] = <<config.root_name>>
        /\ (RootBefore = Absent \/ fault[RootPath] # "none"
               \/ ~Search(RootBefore, "website").ok) => info[2] = <<>>

\* C6: with no sync script, sync_versions returns True, leaves the root file
\* alone, and sets every version field of every layer file it can read and write
\* to the target version, whatever I/O error the other layer files meet.
C6_SyncInProcess ==
    (Synced /\ NoScript) =>
        /\ ret = "True"
        /\ RootAfter = RootBefore
        /\ RootPath \notin written
        /\ cmds = <<>>
        /\ \A p \in SubPaths :
              /\ pre[p] = Absent => files[p] = Absent
              /\ (pre[p] # Absent /\ fault[p] = "none") =>
                    /\ FieldValues(files[p]) \subseteq {Target}
                    /\ FieldsOf(files[p]) = FieldsOf(pre[p])
                    /\ Len(files[p]) = Len(pre[p])
                    /\ p \in written <=> files[p] # pre[p]

\* A layer file fails, and a layer file the loop visits after it is updated.
C6_Witness ==
    /\ Synced
    /\ NoScript
    /\ \E p, q \in SubPaths :
          /\ p < q
          /\ fault[p] # "none"
          /\ q \in written
          /\ files[q] # pre[q]
          /\ FieldValues(files[q]) = {Target}

\* C7: when a sync script exists, at scripts/release/sync_versions.py or else at
\* scripts/sync_versions.py, sync_versions runs exactly that script, once, with
\* the target version as its only argument, writes no metadata file, and returns
\* True iff the runner returned a result; it rewrites files itself only when
\* neither script exists.
C7_SyncDelegates ==
    Synced =>
        /\ ~NoScript =>
              /\ Len(cmds) = 1
              /\ cmds[1].argv =
                    <<Python,
                      IF SyncScript \in exists THEN SyncScript ELSE SyncScriptAlt,
                      config.version>>
              /\ written = {}
              /\ files = pre
              /\ ret = "True" <=> cmds[1].result # "None"
        /\ NoScript => cmds = <<>>
        /\ (written # {} \/ files # pre) => NoScript

\* Both scripts exist, the one under scripts/release runs and fails.
C7_Witness ==
    /\ Synced
    /\ exists = {SyncScript, SyncScriptAlt}
    /\ Len(cmds) = 1
    /\ cmds[1].argv[2] = SyncScript
    /\ cmds[1].result = "None"
    /\ ret = "False"

\* C8: run_build returns False exactly when no build command succeeds, and True
\* as soon as 'make build' or 'alr build' succeeds; 'alr build' runs only when
\* there is no Makefile or 'make build' failed; 'make clean' always runs right
\* before 'make build'.
C8_BuildIsHardFailure ==
    op = "run_build" =>
        /\ ret \in {"True", "False"}
        /\ ret = "True" <=> (Succeeded(<<"make", "build">>) \/ Succeeded(<<"alr", "build">>))
        /\ ret = "True" => cmds[Len(cmds)].result # "None"
        /\ Ran(<<"make", "build">>) <=> Makefile \in exists
        /\ Ran(<<"alr", "build">>) <=>
              (Makefile \notin exists \/ ~Succeeded(<<"make", "build">>))
        /\ \A i \in 1..Len(cmds) :
              cmds[i].argv = <<"make", "build">> =>
                  (i > 1 /\ cmds[i - 1].argv = <<"make", "clean">>)
        /\ \A i \in 1..Len(cmds) :
              cmds[i].argv = <<"alr", "build">> => i = Len(cmds)

\* 'make build' fails and 'alr build' then succeeds.
C8_Witness ==
    /\ op = "run_build"
    /\ Makefile \in exists
    /\ Ran(<<"make", "build">>)
    /\ ~Succeeded(<<"make", "build">>)
    /\ Succeeded(<<"alr", "build">>)
    /\ ret = "True"

\* C9: run_tests, run_format and cleanup_temp_files return True whatever exists
\* and whatever the commands return; cleanup_temp_files runs the cleanup script
\* first and 'make clean' only when the script is absent or its run failed.
C9_BestEffortSteps ==
    /\ op \in {"run_tests", "run_format", "cleanup_temp_files"} => ret = "True"
    /\ op = "run_tests" => (Ran(<<"make", "test">>) <=> Makefile \in exists)
    /\ op = "run_format" => (Ran(<<"make", "format">>) <=> Makefile \in exists)
    /\ op = "cleanup_temp_files" =>
          /\ Ran(<<Python, CleanupScript>>) <=> CleanupScript \in exists
          /\ Ran(<<Python, CleanupScript>>) => cmds[1].argv = <<Python, CleanupScript>>
          /\ Ran(<<"make", "clean">>) <=>
                (/\ Makefile \in exists
                 /\ (CleanupScript \notin exists \/ ~Succeeded(<<Python, CleanupScript>>)))

\* The cleanup script fails, 'make clean' fails too, and the step returns True.
C9_Witness ==
    /\ op = "cleanup_temp_files"
    /\ Len(cmds) = 2
    /\ cmds[1].argv = <<Python, CleanupScript>>
    /\ cmds[1].result = "None"
    /\ cmds[2].argv = <<"make", "clean">>
    /\ cmds[2].result = "None"
    /\ ret = "True"

\* The tree of the end-to-end scenario and its run.
DemoTree == OnlyRoot(DemoToml)
DemoTreeUpdated == OnlyRoot(NameLine \o VersionLine(FALSE, "0.2.0"))
DemoRun ==
    /\ stage = 3
    /\ hist[1].before = DemoTree
    /\ exists = {}
    /\ config.version = "0.2.0"
    /\ \A k \in 1..3 : hist[k].fault = NoFault

\* C10: on the tree whose only metadata file is the root one with name "demo"
\* and version "0.1.0", with no scripts, update_version, sync_versions and
\* generate_version_file for target "0.2.0" all return True; update_version
\* changes only the version line, sync_versions changes no file, and
\* generate_version_file runs no command and changes no file.
C10_EndToEnd ==
    DemoRun =>
        /\ \A k \in 1..3 : hist[k].ret = "True"
        /\ hist[1].op = "update_version"
        /\ hist[1].after = DemoTreeUpdated
        /\ hist[2].op = "sync_versions"
        /\ hist[2].before = DemoTreeUpdated
        /\ hist[2].after = DemoTreeUpdated
        /\ hist[2].written = {}
        /\ hist[2].cmds = <<>>
        /\ hist[3].op = "generate_version_file"
        /\ hist[3].after = DemoTreeUpdated
        /\ hist[3].written = {}
        /\ hist[3].cmds = <<>>

C10_Witness == DemoRun /\ files = DemoTreeUpdated

====
